---------------------------- MODULE Spec2Model ----------------------------
(***************************************************************************)
(* A model of sunpy.net.hespe (src/sunpy/net/hespe/hespe.py): the client   *)
(* of the HESPE flare database.                                            *)
(*                                                                         *)
(* Python strings that the code slices, searches or tests for a suffix     *)
(* (URLs, file names) are sequences of one-character strings.  Strings     *)
(* that the code only formats and concatenates (the filter URL) are TLA+   *)
(* strings.  A call's outcome is a record: Ok(v) for a returned value,     *)
(* Raise(e) for an exception that leaves the function.                     *)
(***************************************************************************)
EXTENDS Integers, Sequences, FiniteSets, TLC

VARIABLES
    fn,     \* SpecPure: the function under call
    arg,    \* SpecPure: its argument(s)
    ret,    \* SpecPure: its outcome, NoRet before the call
    dirs,   \* does the download directory .../HESPE/ exist
    disk,   \* the download directory: file name -> file
    pc,     \* caller -> position in _download_hespe_fits_as_map
    loc,    \* caller -> the locals of its call
    last,   \* Spec: the call of _download_hespe_fits_as_map before this one
    batch   \* the frame of get_maps_of_flareevent

purevars == <<fn, arg, ret>>
dlvars == <<dirs, disk, pc, loc, last, batch>>
vars == <<fn, arg, ret, dirs, disk, pc, loc, last, batch>>

---------------------------------------------------------------------------
(* Bounds of the model *)

MaxUrlLen == 5      \* longest url given to _rewrite_url_to_fits_url
MaxDays == 800      \* HESPE times range over -MaxDays..MaxDays days
MaxRecords == 3     \* longest record list answered to _get_flare_data
MaxMaps == 4        \* longest map_list given to group_maps_by_energy
MaxBags == 3        \* longest list of image descriptors of a flare record

---------------------------------------------------------------------------
(* Outcomes of a call *)

NoRet == [state |-> "pending"]
Ok(v) == [state |-> "returned", val |-> v]
Raise(e) == [state |-> "raised", exc |-> e]

---------------------------------------------------------------------------
(* Python's str operations *)

\* the index i of a slice of a sequence of length n, as Python clips it
PyIdx(n, i) ==
    IF i < 0 THEN (IF i + n < 0 THEN 0 ELSE i + n)
    ELSE (IF i > n THEN n ELSE i)

\* s[a:b]
PySlice(s, a, b) ==
    LET lo == PyIdx(Len(s), a)
        hi == PyIdx(Len(s), b)
    IN  IF lo >= hi THEN <<>> ELSE SubSeq(s, lo + 1, hi)

\* s[a:]
PySliceFrom(s, a) == PySlice(s, a, Len(s))

\* s.find(c, start): the lowest 0-based index >= start holding c, or -1
PyFind(s, c, start) ==
    LET from == PyIdx(Len(s), start)
        hits == {i \in from..(Len(s) - 1) : s[i + 1] = c}
    IN  IF hits = {} THEN -1
        ELSE CHOOSE i \in hits : \A j \in hits : i <= j

\* s.rfind(c): the highest 0-based index holding c, or -1
PyRFind(s, c) ==
    LET hits == {i \in 0..(Len(s) - 1) : s[i + 1] = c}
    IN  IF hits = {} THEN -1
        ELSE CHOOSE i \in hits : \A j \in hits : i >= j

\* s.endswith(suffix)
PyEndsWith(s, suffix) ==
    /\ Len(s) >= Len(suffix)
    /\ SubSeq(s, Len(s) - Len(suffix) + 1, Len(s)) = suffix

Digit == <<"0", "1", "2", "3", "4", "5", "6", "7", "8", "9">>

RECURSIVE NatToStr(_)
NatToStr(n) ==
    IF n < 10 THEN Digit[n + 1]
    ELSE NatToStr(n \div 10) \o Digit[(n % 10) + 1]

\* str(n) of an integer
IntToStr(n) == IF n < 0 THEN "-" \o NatToStr(-n) ELSE NatToStr(n)

\* Python values handed to the "%s" format
PyInt(n) == [t |-> "int", v |-> n]
PyStr(s) == [t |-> "str", s |-> s]

\* a slip: "%r" % v, which quotes a string
FormatR(v) == IF v.t = "int" THEN IntToStr(v.v) ELSE "'" \o v.s \o "'"

\* "%s" % v
FormatS(v) == IF v.t = "int" THEN IntToStr(v.v) ELSE v.s

---------------------------------------------------------------------------
(* URL constants *)

_IMAGE_DATABASE_BASE_URL ==
    <<"h","t","t","p",":","/","/","h","s","p",".","c","s",".","t","e","c",
      "h","n","i","k",".","f","h","n","w",".","c","h","/","f","l","a","r",
      "e","d","a","t","a","/">>

_EVENT_LIST_BASE_URL ==
    "http://hsp.cs.technik.fhnw.ch/webdbi-0.6-SNAPSHOT/filteredEvents/"

_EVENT_LIST_URL ==
    "http://hsp.cs.technik.fhnw.ch/webdbi-0.6-SNAPSHOT/filteredEvents/-1/-1/-1/-1/null/null/-1/0/0/startTime/DESC"

\* seconds between 1.1.1970 and 1.1.1979
_HESPE_TIME_TO_UNIX_TIME == 283996800

ALG_KEYMAP ==
    [uvsmooth |-> "quicklook", visclean |-> "quicklook_visclean",
     memnjit |-> "quicklook_memnjit", bpmap |-> "quicklook_bpmap"]

MAP_TYPE_KEYMAP == [photon |-> "visBags", electron |-> "electron_visBags"]

---------------------------------------------------------------------------
(* _rewrite_url_to_fits_url *)

DotPng == <<".", "p", "n", "g">>
Fits == <<"f", "i", "t", "s">>

\* a slip: the dot goes with the suffix
RewriteDropsDot(url) ==
    IF ~PyEndsWith(url, DotPng)
    THEN Raise("Exception")
    ELSE Ok(_IMAGE_DATABASE_BASE_URL \o PySlice(url, 0, -4) \o Fits)

_rewrite_url_to_fits_url(url) ==
    IF ~PyEndsWith(url, DotPng)
    THEN Raise("Exception")
    ELSE Ok(_IMAGE_DATABASE_BASE_URL \o PySlice(url, 0, -3) \o Fits)

---------------------------------------------------------------------------
(* _hespeTimeToUTC *)

\* the civil date of the day `days` days after 1970-01-01 (proleptic
\* Gregorian calendar, as datetime keeps it)
CivilFromDays(days) ==
    LET z == days + 719468
        era == z \div 146097
        doe == z - era * 146097
        yoe == (doe - doe \div 1460 + doe \div 36524 - doe \div 146096) \div 365
        doy == doe - (365 * yoe + yoe \div 4 - yoe \div 100)
        mp == (5 * doy + 2) \div 153
        d == doy - (153 * mp + 2) \div 5 + 1
        m == IF mp < 10 THEN mp + 3 ELSE mp - 9
        y == yoe + era * 400 + (IF m <= 2 THEN 1 ELSE 0)
    IN  [year |-> y, month |-> m, day |-> d]

\* datetime.utcfromtimestamp(ts) for a whole number of seconds
utcfromtimestamp(ts) ==
    LET days == ts \div 86400
        rest == ts % 86400
        date == CivilFromDays(days)
    IN  [year |-> date.year, month |-> date.month, day |-> date.day,
         hour |-> rest \div 3600, minute |-> (rest % 3600) \div 60,
         second |-> rest % 60]

\* a slip: nine years of 365 days, the leap days of 1972 and 1976 left out
HespeTimeNoLeapDays(time) == utcfromtimestamp(time + 283824000)

_hespeTimeToUTC(time) == utcfromtimestamp(time + _HESPE_TIME_TO_UNIX_TIME)

---------------------------------------------------------------------------
(* _get_flare_data *)

\* a slip: the loop without its break, which keeps the last record found
RECURSIVE ScanKeepsLast(_, _)
ScanKeepsLast(data, ivs_type) ==
    IF data = <<>> THEN Raise("Exception")
    ELSE IF data[Len(data)].ivsType = ivs_type THEN Ok(data[Len(data)])
    ELSE ScanKeepsLast(SubSeq(data, 1, Len(data) - 1), ivs_type)

\* the loop over data: the first record whose ivsType is ivs_type
RECURSIVE ScanIvsType(_, _)
ScanIvsType(data, ivs_type) ==
    IF data = <<>> THEN Raise("Exception")
    ELSE IF Head(data).ivsType = ivs_type THEN Ok(Head(data))
    ELSE ScanIvsType(Tail(data), ivs_type)

\* resp is what urllib.urlopen answers: the HTTP code and the decoded JSON body
_get_flare_data(resp, ivs_type) ==
    IF resp.code # 200 THEN Raise("Exception")
    ELSE ScanIvsType(resp.data, ivs_type)

---------------------------------------------------------------------------
(* _generate_parameter_url *)

ParamNames ==
    <<"min_date", "max_date", "min_duration", "max_duration", "min_goes",
      "max_goes", "flare_id", "start_nmbr", "total_nmbr", "sort_parameter",
      "sortDirection">>

\* the keyword defaults of the signature
ParamDefault ==
    [min_date |-> PyInt(-1), max_date |-> PyInt(-1),
     min_duration |-> PyInt(-1), max_duration |-> PyInt(-1),
     min_goes |-> PyStr("null"), max_goes |-> PyStr("null"),
     flare_id |-> PyInt(-1), start_nmbr |-> PyInt(0),
     total_nmbr |-> PyInt(0), sort_parameter |-> PyStr("startTime"),
     sortDirection |-> PyStr("DESC")]

Unset == [t |-> "unset"]

\* the value a parameter is bound to: the keyword given, else the default
Bound(kwargs, name) ==
    IF kwargs[name] = Unset THEN ParamDefault[name] ELSE kwargs[name]

_generate_parameter_url(kwargs) ==
    _EVENT_LIST_BASE_URL
        \o FormatS(Bound(kwargs, "min_date")) \o "/"
        \o FormatS(Bound(kwargs, "max_date")) \o "/"
        \o FormatS(Bound(kwargs, "min_duration")) \o "/"
        \o FormatS(Bound(kwargs, "max_duration")) \o "/"
        \o FormatS(Bound(kwargs, "min_goes")) \o "/"
        \o FormatS(Bound(kwargs, "max_goes")) \o "/"
        \o FormatS(Bound(kwargs, "flare_id")) \o "/"
        \o FormatS(Bound(kwargs, "start_nmbr")) \o "/"
        \o FormatS(Bound(kwargs, "total_nmbr")) \o "/"
        \o FormatS(Bound(kwargs, "sort_parameter")) \o "/"
        \o FormatS(Bound(kwargs, "sortDirection"))

---------------------------------------------------------------------------
(* group_maps_by_energy *)

\* the first loop: dic maps each (energy_l, energy_h) to the list of its maps
RECURSIVE GroupLoop(_, _)
GroupLoop(map_list, dic) ==
    IF map_list = <<>> THEN dic
    ELSE LET i == Head(map_list)
             _key == <<i.meta.energy_l, i.meta.energy_h>>
         IN  IF _key \notin DOMAIN dic
             THEN GroupLoop(Tail(map_list),
                            [k \in (DOMAIN dic) \cup {_key} |->
                                IF k = _key THEN <<i>> ELSE dic[k]])
             ELSE GroupLoop(Tail(map_list),
                            [dic EXCEPT ![_key] = Append(@, i)])

\* a slip: 1 / n without the float, which Python 2 divides as integers
AlphaIntegerDivision(n) == <<1 \div n, 1>>

\* alpha = 1.0 / n, kept as the fraction <<numerator, denominator>>
Alpha(n) == <<1, n>>

\* CompositeMap.add_map(amap, zorder, alpha): the member joins the composite
add_map(comp_map, amap, zorder, alpha) ==
    Append(comp_map, [map |-> amap, zorder |-> zorder, alpha |-> alpha])

\* the inner loop: every map of the list is added with the same alpha
RECURSIVE AddAll(_, _, _)
AddAll(comp_map, maps, alpha) ==
    IF maps = <<>> THEN comp_map
    ELSE AddAll(add_map(comp_map, Head(maps), 0, alpha), Tail(maps), alpha)

\* the second loop: each list is replaced by its CompositeMap
Composite(maps) == AddAll(<<>>, maps, Alpha(Len(maps)))

group_maps_by_energy(map_list) ==
    LET dic == GroupLoop(map_list, <<>>)
    IN  [k \in DOMAIN dic |-> Composite(dic[k])]

---------------------------------------------------------------------------
(* The remote image database, and the URLs the model draws its calls from *)

\* URLs of quicklook images, relative to the image database, as the event
\* data names them
PngA == <<"a","/","h","_","6","0","_","x",".","p","n","g">>
PngB == <<"b","/","h","_","6","0","_","x",".","p","n","g">>
PngQV == <<"q","_","v","/","h","_","0","_","y",".","p","n","g">>
PngQ7 == <<"q","_","7","_","v","/","h","_","0","_","z",".","p","n","g">>
PngNoUs == <<"a","/","h","x",".","p","n","g">>
Gif == <<"a","/","h","_","5","_","x",".","g","i","f">>

PngUrls == {PngA, PngB, PngQV, PngQ7, PngNoUs}

\* the URLs given to _download_hespe_fits_as_map
FitsUrls == {_rewrite_url_to_fits_url(u).val : u \in PngUrls}

\* the (energy_l, energy_h) pairs given with them; <<0, 0>> are the defaults
EnergyPairs == {<<0, 0>>, <<3, 6>>}

\* HDU 1 of the FITS file the server holds at url: a binary table of one
\* row, whose first column is the image and whose other columns hold the
\* geometry.  The image is named after the url, so that the files of two
\* urls differ.
Remote(url) ==
    [header |-> [xtension |-> "BINTABLE"],
     data |-> [image |-> [of |-> url, shape |-> <<64, 32>>],
               XC |-> <<912, 0>>, YC |-> <<-205, 0>>,
               DX |-> <<4, 0>>, DY |-> <<4, 0>>,
               XUNITS |-> <<"arcsec", "">>, YUNITS |-> <<"arcsec", "">>,
               ROLL_ANGLE |-> <<0, 0>>]]

---------------------------------------------------------------------------
(* _download_hespe_fits_as_map *)

Callers == {1, 2}

NoFile == [exists |-> FALSE]
NoImg == [open |-> FALSE]
Idle ==
    [url |-> <<>>, energy_l |-> 0, energy_h |-> 0, filename |-> <<>>,
     fits_img |-> NoImg, opened |-> <<>>, wrote |-> FALSE, out |-> NoRet]

\* filename = url[url.rfind("/") + 1:]
FileNameOf(url) == PySliceFrom(url, PyRFind(url, "/") + 1)

FileNames == {FileNameOf(u) : u \in FitsUrls}

DigitChars == {Digit[i] : i \in 1..10}

RECURSIVE DigitsValue(_, _)
DigitsValue(s, acc) ==
    IF s = <<>> THEN acc
    ELSE DigitsValue(Tail(s),
                     10 * acc + (CHOOSE d \in 0..9 : Digit[d + 1] = Head(s)))

\* float(s), for the strings of the model's URLs: these carry whole seconds
\* and no sign, exponent or blank, so a string of digits is its value and
\* any other string is a ValueError
PyFloat(s) ==
    IF s # <<>> /\ \A i \in 1..Len(s) : s[i] \in DigitChars
    THEN Ok(DigitsValue(s, 0))
    ELSE Raise("ValueError")

\* the seconds since 1.1.1979 the code reads from the url
TimeString(url) ==
    LET pos == PyFind(url, "_", 0)
    IN  PySlice(url, pos + 1, PyFind(url, "_", pos + 1))

Pad2(n) == IF n < 10 THEN "0" \o NatToStr(n) ELSE NatToStr(n)
Pad4(n) ==
    IF n < 10 THEN "000" \o NatToStr(n)
    ELSE IF n < 100 THEN "00" \o NatToStr(n)
    ELSE IF n < 1000 THEN "0" \o NatToStr(n)
    ELSE NatToStr(n)

\* str(dt) of a datetime without microseconds
DateTimeStr(dt) ==
    Pad4(dt.year) \o "-" \o Pad2(dt.month) \o "-" \o Pad2(dt.day) \o " "
        \o Pad2(dt.hour) \o ":" \o Pad2(dt.minute) \o ":" \o Pad2(dt.second)

\* header.append((key, value)); a key the header holds keeps its first card
HeaderAppend(header, key, value) == header @@ (key :> value)

\* the cards the code appends, in its order; a fraction x / 2.0 is <<x, 2>>
CardsOf(data, energy_l, energy_h, dt) ==
    <<  <<"energy_l", energy_l>>, <<"energy_h", energy_h>>,
        <<"telescop", "RHESSI">>, <<"instrume", "RHESSI">>,
        <<"crval1", data.XC[1]>>, <<"crval2", data.YC[1]>>,
        <<"naxis1", data.image.shape[1]>>, <<"naxis2", data.image.shape[2]>>,
        <<"crpix1", <<data.image.shape[1] + 1, 2>> >>,
        <<"crpix2", <<data.image.shape[2] + 1, 2>> >>,
        <<"cdelt1", data.DX[1]>>, <<"cdelt2", data.DY[1]>>,
        <<"date-obs", DateTimeStr(dt)>>,
        <<"ctype1", data.XUNITS[1]>>, <<"ctype2", data.YUNITS[1]>>,
        <<"crota1", data.ROLL_ANGLE[1]>>, <<"crota2", data.ROLL_ANGLE[1]>>  >>

RECURSIVE AppendCards(_, _)
AppendCards(header, cards) ==
    IF cards = <<>> THEN header
    ELSE AppendCards(HeaderAppend(header, Head(cards)[1], Head(cards)[2]),
                     Tail(cards))

\* the header enrichment of a freshly downloaded file: the outcome is the
\* enriched HDU, or the ValueError of float()
EnrichHdu(hdu, url, energy_l, energy_h) ==
    LET _time == PyFloat(TimeString(url))
    IN  IF _time.state = "raised" THEN _time
        ELSE Ok([hdu EXCEPT !.header =
                    AppendCards(hdu.header,
                                CardsOf(hdu.data, energy_l, energy_h,
                                        _hespeTimeToUTC(_time.val)))])

\* RHESSIMap(fits_img[1].data[0][0], fits_img[1].header), with its cmap
MapOf(hdu) ==
    [data |-> hdu.data.image, meta |-> hdu.header, cmap |-> "rhessi"]

Fail(p, e) ==
    /\ pc' = [pc EXCEPT ![p] = "raised"]
    /\ loc' = [loc EXCEPT ![p].out = Raise(e)]

\* the call is entered with its arguments
Enter(p, url, energy_l, energy_h) ==
    /\ pc' = [pc EXCEPT ![p] = "mkdir"]
    /\ loc' = [loc EXCEPT ![p] =
                  [Idle EXCEPT !.url = url, !.energy_l = energy_l,
                               !.energy_h = energy_h]]

\* os.mkdir(download_dir), whose OSError is passed over; filename and path
Mkdir(p) ==
    /\ pc[p] = "mkdir"
    /\ dirs' = TRUE
    /\ loc' = [loc EXCEPT ![p].filename = FileNameOf(loc[p].url)]
    /\ pc' = [pc EXCEPT ![p] = "exists"]
    /\ UNCHANGED <<disk, last, batch, fn, arg, ret>>

\* a slip: the cached file is not looked for
ExistsIgnoresCache(p) ==
    /\ pc[p] = "exists"
    /\ pc' = [pc EXCEPT ![p] = "open_url"]
    /\ UNCHANGED <<dirs, disk, loc, last, batch, fn, arg, ret>>

\* os.path.exists(path)
Exists(p) ==
    /\ pc[p] = "exists"
    /\ pc' = [pc EXCEPT ![p] =
                 IF disk[loc[p].filename].exists THEN "open_path"
                 ELSE "open_url"]
    /\ UNCHANGED <<dirs, disk, loc, last, batch, fn, arg, ret>>

\* what fits.open(path) gives for a file whose writer has not finished:
\* an IOError, or an HDU whose table is cut short
Truncated(hdu) == [hdu EXCEPT !.data.image = [of |-> <<>>, shape |-> <<0, 0>>]]

\* fits_img = fits.open(path)
OpenPath(p) ==
    /\ pc[p] = "open_path"
    /\ LET file == disk[loc[p].filename]
       IN  IF file.complete
           THEN /\ loc' = [loc EXCEPT ![p].fits_img =
                              [open |-> TRUE, hdu |-> file.hdu]]
                /\ pc' = [pc EXCEPT ![p] = "map"]
           ELSE \E readable \in BOOLEAN :
                   IF readable
                   THEN /\ loc' = [loc EXCEPT ![p].fits_img =
                                      [open |-> TRUE,
                                       hdu |-> Truncated(file.hdu)]]
                        /\ pc' = [pc EXCEPT ![p] = "map"]
                   ELSE Fail(p, "IOError")
    /\ UNCHANGED <<dirs, disk, last, batch, fn, arg, ret>>

\* fits_img = fits.open(url): the file is fetched over the network, which
\* may fail
OpenUrl(p) ==
    /\ pc[p] = "open_url"
    /\ \E reached \in BOOLEAN :
          IF reached
          THEN /\ loc' = [loc EXCEPT
                            ![p].fits_img =
                                [open |-> TRUE, hdu |-> Remote(loc[p].url)],
                            ![p].opened = Append(@, loc[p].url)]
               /\ pc' = [pc EXCEPT ![p] = "enrich"]
          ELSE /\ loc' = [loc EXCEPT ![p].opened = Append(@, loc[p].url),
                                     ![p].out = Raise("IOError")]
               /\ pc' = [pc EXCEPT ![p] = "raised"]
    /\ UNCHANGED <<dirs, disk, last, batch, fn, arg, ret>>

\* the time is read from the url and the header is enriched
Enrich(p) ==
    /\ pc[p] = "enrich"
    /\ LET got == EnrichHdu(loc[p].fits_img.hdu, loc[p].url,
                            loc[p].energy_l, loc[p].energy_h)
       IN  IF got.state = "raised"
           THEN /\ pc' = [pc EXCEPT ![p] = "raised"]
                /\ loc' = [loc EXCEPT ![p].out = got]
           ELSE /\ pc' = [pc EXCEPT ![p] = "writeto"]
                /\ loc' = [loc EXCEPT ![p].fits_img.hdu = got.val]
    /\ UNCHANGED <<dirs, disk, last, batch, fn, arg, ret>>

\* a slip: writeto(path, clobber=True), which writes over the file
WriteToClobbers(p) ==
    /\ pc[p] = "writeto"
    /\ disk' = [disk EXCEPT ![loc[p].filename] =
                    [exists |-> TRUE, complete |-> FALSE,
                     hdu |-> loc[p].fits_img.hdu]]
    /\ pc' = [pc EXCEPT ![p] = "writing"]
    /\ UNCHANGED <<dirs, loc, last, batch, fn, arg, ret>>

\* fits_img.writeto(path): refused when the path exists, else the file is
\* created and its writing begins
WriteTo(p) ==
    /\ pc[p] = "writeto"
    /\ IF disk[loc[p].filename].exists
       THEN /\ Fail(p, "IOError")
            /\ UNCHANGED disk
       ELSE /\ disk' = [disk EXCEPT ![loc[p].filename] =
                           [exists |-> TRUE, complete |-> FALSE,
                            hdu |-> loc[p].fits_img.hdu]]
            /\ pc' = [pc EXCEPT ![p] = "writing"]
            /\ UNCHANGED loc
    /\ UNCHANGED <<dirs, last, batch, fn, arg, ret>>

\* writeto has written the whole file and closes it
WriteDone(p) ==
    /\ pc[p] = "writing"
    /\ disk' = [disk EXCEPT ![loc[p].filename].complete = TRUE]
    /\ loc' = [loc EXCEPT ![p].wrote = TRUE]
    /\ pc' = [pc EXCEPT ![p] = "map"]
    /\ UNCHANGED <<dirs, last, batch, fn, arg, ret>>

\* the RHESSIMap is built and returned
MakeMap(p) ==
    /\ pc[p] = "map"
    /\ loc' = [loc EXCEPT ![p].out = Ok(MapOf(loc[p].fits_img.hdu))]
    /\ pc' = [pc EXCEPT ![p] = "returned"]
    /\ UNCHANGED <<dirs, disk, last, batch, fn, arg, ret>>

\* one step of caller p inside _download_hespe_fits_as_map
Step(p) ==
    \/ Mkdir(p)
    \/ Exists(p)
    \/ OpenPath(p)
    \/ OpenUrl(p)
    \/ Enrich(p)
    \/ WriteTo(p)
    \/ WriteDone(p)
    \/ MakeMap(p)

Done(p) == pc[p] \in {"returned", "raised"}

---------------------------------------------------------------------------
(* Spec: one caller calls _download_hespe_fits_as_map again and again *)

PureIdle == fn = "none" /\ arg = <<>> /\ ret = NoRet

\* what is kept of a finished call
Summary(l) ==
    [url |-> l.url, energy_l |-> l.energy_l, energy_h |-> l.energy_h,
     opened |-> l.opened, wrote |-> l.wrote, out |-> l.out]

NoCall == Summary(Idle)

NoBatch ==
    [state |-> "idle", bags |-> <<>>, img_alg |-> "", c |-> 0,
     map_list |-> <<>>, out |-> NoRet]

DownloadInit ==
    /\ dirs = FALSE
    /\ disk = [f \in FileNames |-> NoFile]
    /\ pc = [p \in Callers |-> "idle"]
    /\ loc = [p \in Callers |-> Idle]
    /\ last = NoCall
    /\ batch = NoBatch

Init == PureIdle /\ DownloadInit

DirectCall ==
    /\ pc[1] = "idle"
    /\ \E url \in FitsUrls, e \in EnergyPairs : Enter(1, url, e[1], e[2])
    /\ UNCHANGED <<dirs, disk, last, batch, fn, arg, ret>>

\* the call is over: the caller has its map, or its exception
DirectReturn ==
    /\ Done(1)
    /\ last' = Summary(loc[1])
    /\ pc' = [pc EXCEPT ![1] = "idle"]
    /\ loc' = [loc EXCEPT ![1] = Idle]
    /\ UNCHANGED <<dirs, disk, batch, fn, arg, ret>>

Next ==
    \/ DirectCall
    \/ Step(1)
    \/ DirectReturn

Spec == Init /\ [][Next]_vars

---------------------------------------------------------------------------
(* get_maps_of_flareevent, and SpecBatch: one caller calls it again and    *)
(* again                                                                   *)

\* an image descriptor of the event data: a quicklook URL per image
\* algorithm, and the energy bounds.  This event has no png of the bpmap.
Descriptor(u) ==
    [quicklook |-> u, quicklook_visclean |-> u, quicklook_memnjit |-> u,
     quicklook_bpmap |-> Gif, lowerEnergy |-> 3, upperEnergy |-> 6]

RECURSIVE SeqsUpTo(_, _)
\* the sequences over S of length at most n
SeqsUpTo(S, n) ==
    IF n = 0 THEN {<<>>}
    ELSE LET shorter == SeqsUpTo(S, n - 1)
         IN  shorter \cup {Append(q, x) : q \in shorter, x \in S}

BagLists == SeqsUpTo({Descriptor(u) : u \in PngUrls}, MaxBags)

FlareDataRecord(ivsType, bags) ==
    [ivsType |-> ivsType, visBags |-> bags, electron_visBags |-> <<>>]

\* the answers of the server to the event-data request of the batch
BatchResponses ==
    {[code |-> 404, data |-> <<>>]}
        \cup {[code |-> 200, data |-> <<FlareDataRecord("coarse", bags)>>] :
                bags \in BagLists}

\* an exception leaves get_maps_of_flareevent; the frame is kept as the
\* exception found it
BatchRaised(frame, out) == [frame EXCEPT !.state = "raised", !.out = out]

\* get_maps_of_flareevent is called: the event data is fetched, the keys
\* are looked up and the loop is entered
BatchCall ==
    /\ batch.state = "idle"
    /\ pc[1] = "idle"
    /\ \E resp \in BatchResponses, ivs_type \in {"coarse", "fine"},
          ray_type \in {"photon", "electron", "gamma"},
          img_alg \in {"visclean", "bpmap", "clean"} :
          LET flare_data == _get_flare_data(resp, ivs_type)
          IN  batch' =
                IF flare_data.state = "raised"
                THEN BatchRaised(batch, flare_data)
                ELSE IF img_alg \notin DOMAIN ALG_KEYMAP
                THEN BatchRaised(batch, Raise("KeyError"))
                ELSE IF ray_type \notin DOMAIN MAP_TYPE_KEYMAP
                THEN BatchRaised(batch, Raise("KeyError"))
                ELSE [state |-> "loop",
                      bags |-> flare_data.val[MAP_TYPE_KEYMAP[ray_type]],
                      img_alg |-> ALG_KEYMAP[img_alg],
                      c |-> 1, map_list |-> <<>>, out |-> NoRet]
    /\ UNCHANGED <<dirs, disk, pc, loc, last, fn, arg, ret>>

\* the loop takes its next descriptor: the URL is rewritten and
\* _download_hespe_fits_as_map is entered
BatchIter ==
    /\ batch.state = "loop"
    /\ batch.c <= Len(batch.bags)
    /\ LET i == batch.bags[batch.c]
           fits_url == _rewrite_url_to_fits_url(i[batch.img_alg])
       IN  IF fits_url.state = "raised"
           THEN /\ batch' = BatchRaised(batch, fits_url)
                /\ UNCHANGED <<pc, loc>>
           ELSE /\ batch' = [batch EXCEPT !.state = "download"]
                /\ Enter(1, fits_url.val, i.lowerEnergy, i.upperEnergy)
    /\ UNCHANGED <<dirs, disk, last, fn, arg, ret>>

\* the download returned: its map is appended
BatchAppend ==
    /\ batch.state = "download"
    /\ pc[1] = "returned"
    /\ batch' = [batch EXCEPT !.state = "loop",
                              !.map_list = Append(@, loc[1].out.val),
                              !.c = @ + 1]
    /\ pc' = [pc EXCEPT ![1] = "idle"]
    /\ loc' = [loc EXCEPT ![1] = Idle]
    /\ UNCHANGED <<dirs, disk, last, fn, arg, ret>>

\* a slip: the exception of a download is caught and the loop goes on
BatchSkipsFailed ==
    /\ batch.state = "download"
    /\ pc[1] = "raised"
    /\ batch' = [batch EXCEPT !.state = "loop", !.c = @ + 1]
    /\ pc' = [pc EXCEPT ![1] = "idle"]
    /\ loc' = [loc EXCEPT ![1] = Idle]
    /\ UNCHANGED <<dirs, disk, last, fn, arg, ret>>

\* the download raised: nothing catches the exception, which leaves
\* get_maps_of_flareevent
BatchPropagate ==
    /\ batch.state = "download"
    /\ pc[1] = "raised"
    /\ batch' = BatchRaised(batch, loc[1].out)
    /\ pc' = [pc EXCEPT ![1] = "idle"]
    /\ loc' = [loc EXCEPT ![1] = Idle]
    /\ UNCHANGED <<dirs, disk, last, fn, arg, ret>>

\* the loop is over: map_list is returned
BatchReturn ==
    /\ batch.state = "loop"
    /\ batch.c > Len(batch.bags)
    /\ batch' = [batch EXCEPT !.state = "returned",
                              !.out = Ok(batch.map_list)]
    /\ UNCHANGED <<dirs, disk, pc, loc, last, fn, arg, ret>>

\* the caller has the list, or the exception
BatchEnd ==
    /\ batch.state \in {"returned", "raised"}
    /\ batch' = NoBatch
    /\ UNCHANGED <<dirs, disk, pc, loc, last, fn, arg, ret>>

NextBatch ==
    \/ BatchCall
    \/ BatchIter
    \/ Step(1)
    \/ BatchAppend
    \/ BatchPropagate
    \/ BatchReturn
    \/ BatchEnd

SpecBatch == Init /\ [][NextBatch]_vars

---------------------------------------------------------------------------
(* SpecRace: two callers call _download_hespe_fits_as_map with the same    *)
(* url, once each, their steps interleaved                                 *)

RaceCall(p) ==
    /\ pc[p] = "idle"
    /\ loc[p] = Idle
    /\ \E url \in FitsUrls, e \in EnergyPairs :
          /\ \A q \in Callers \ {p} : loc[q].url \in {<<>>, url}
          /\ Enter(p, url, e[1], e[2])
    /\ UNCHANGED <<dirs, disk, last, batch, fn, arg, ret>>

NextRace == \E p \in Callers : RaceCall(p) \/ Step(p)

SpecRace == Init /\ [][NextRace]_vars

---------------------------------------------------------------------------
(* SpecPure: one call of one of the pure functions, its arguments drawn    *)
(* from bounded sets                                                       *)

RewriteChars == {"a", ".", "p", "n", "g"}

\* HESPE times: for every day of the range, its first second, two seconds
\* within it and its last second
HespeTimes ==
    {d * 86400 + s : d \in (-MaxDays)..MaxDays, s \in {0, 59, 3600, 86399}}

RecordPool ==
    {FlareDataRecord("coarse", <<>>),
     FlareDataRecord("coarse", <<Descriptor(PngA)>>),
     FlareDataRecord("fixed", <<>>),
     FlareDataRecord("fine", <<Descriptor(PngB)>>)}

\* a value given for each keyword of _generate_parameter_url
ParamSample ==
    [min_date |-> PyInt(1357), max_date |-> PyInt(1362),
     min_duration |-> PyInt(60), max_duration |-> PyInt(900),
     min_goes |-> PyStr("C1"), max_goes |-> PyStr("X9"),
     flare_id |-> PyInt(13060315), start_nmbr |-> PyInt(20),
     total_nmbr |-> PyInt(100), sort_parameter |-> PyStr("duration"),
     sortDirection |-> PyStr("ASC")]

ParamSet == {ParamNames[i] : i \in 1..Len(ParamNames)}

KwargsSets ==
    {[n \in ParamSet |-> IF n \in given THEN ParamSample[n] ELSE Unset] :
        given \in SUBSET ParamSet}

\* the map _download_hespe_fits_as_map returns for url on a cache miss
EnrichedMap(url, energy_l, energy_h) ==
    MapOf(EnrichHdu(Remote(url), url, energy_l, energy_h).val)

FitsA == _rewrite_url_to_fits_url(PngA).val
FitsQ7 == _rewrite_url_to_fits_url(PngQ7).val

MapPool ==
    {EnrichedMap(FitsA, 3, 6), EnrichedMap(FitsQ7, 3, 6),
     EnrichedMap(FitsA, 6, 12), EnrichedMap(FitsA, 3, 12)}

PureCalls ==
    ({"_rewrite_url_to_fits_url"} \X SeqsUpTo(RewriteChars, MaxUrlLen))
    \cup ({"_hespeTimeToUTC"} \X HespeTimes)
    \cup ({"_get_flare_data"} \X
            ([code : {200, 404}, data : SeqsUpTo(RecordPool, MaxRecords)]
                \X {"coarse", "fixed", "fine"}))
    \cup ({"_generate_parameter_url"} \X KwargsSets)
    \cup ({"group_maps_by_energy"} \X SeqsUpTo(MapPool, MaxMaps))

PureInit ==
    /\ DownloadInit
    /\ ret = NoRet
    /\ \E call \in PureCalls : fn = call[1] /\ arg = call[2]

Pending(name) == fn = name /\ ret = NoRet

CallRewrite ==
    /\ Pending("_rewrite_url_to_fits_url")
    /\ ret' = _rewrite_url_to_fits_url(arg)
    /\ UNCHANGED <<fn, arg, dirs, disk, pc, loc, last, batch>>

CallHespeTime ==
    /\ Pending("_hespeTimeToUTC")
    /\ ret' = Ok(_hespeTimeToUTC(arg))
    /\ UNCHANGED <<fn, arg, dirs, disk, pc, loc, last, batch>>

CallGetFlareData ==
    /\ Pending("_get_flare_data")
    /\ ret' = _get_flare_data(arg[1], arg[2])
    /\ UNCHANGED <<fn, arg, dirs, disk, pc, loc, last, batch>>

CallParameterUrl ==
    /\ Pending("_generate_parameter_url")
    /\ ret' = Ok(_generate_parameter_url(arg))
    /\ UNCHANGED <<fn, arg, dirs, disk, pc, loc, last, batch>>

CallGroupMaps ==
    /\ Pending("group_maps_by_energy")
    /\ ret' = Ok(group_maps_by_energy(arg))
    /\ UNCHANGED <<fn, arg, dirs, disk, pc, loc, last, batch>>

NextPure ==
    \/ CallRewrite
    \/ CallHespeTime
    \/ CallGetFlareData
    \/ CallParameterUrl
    \/ CallGroupMaps

SpecPure == PureInit /\ [][NextPure]_vars

---------------------------------------------------------------------------
(* Claims about _download_hespe_fits_as_map, under Spec *)

\* the call of before fetched url over the network (the cache did not hold
\* its file) and returned, and the call under way is for the same url
SecondCallOf(l) ==
    /\ last.url = l.url
    /\ l.url # <<>>
    /\ last.out.state = "returned"
    /\ last.opened # <<>>

\* C1: cache idempotence.  When a call that found no cached file has
\* fetched the url and returned, the next call with the same url opens
\* nothing over the network and writes nothing, it does not fail, and it
\* returns the map the first call returned: the two calls together make
\* exactly one network fetch.
CacheIdempotence ==
    SecondCallOf(loc[1]) =>
        /\ loc[1].opened = <<>>
        /\ ~loc[1].wrote
        /\ Len(last.opened) + Len(loc[1].opened) = 1
        /\ pc[1] \notin {"open_url", "enrich", "writeto", "writing", "raised"}
        /\ pc[1] = "returned" => loc[1].out = last.out

\* the second call has returned, and it was given other energies
CacheIdempotenceWitness ==
    /\ SecondCallOf(loc[1])
    /\ pc[1] = "returned"
    /\ loc[1].energy_l # last.energy_l

\* C9: a call for url returns the image of url itself, never the image
\* fetched from another url.
CachedFileIsOfItsUrl ==
    pc[1] = "returned" => loc[1].out.val.data.of = loc[1].url

\* the numeric substring between the first and the second underscore of the
\* file name: its value, or a ValueError when the name has none
FileNameTime(url) ==
    LET name == FileNameOf(url)
        first == PyFind(name, "_", 0)
        second == PyFind(name, "_", first + 1)
    IN  IF first = -1 \/ second = -1 THEN Raise("ValueError")
        ELSE PyFloat(SubSeq(name, first + 2, second))

\* C10: on a cache miss the date-obs written is decoded from the numeric
\* substring between the first and the second underscore of the file name,
\* and a call whose file name has no such substring fails.
DateObsIsOfFileName ==
    /\ pc[1] \in {"writeto", "writing"} =>
          /\ FileNameTime(loc[1].url).state = "returned"
          /\ loc[1].fits_img.hdu.header["date-obs"] =
                DateTimeStr(_hespeTimeToUTC(FileNameTime(loc[1].url).val))
    /\ (pc[1] = "raised" /\ loc[1].out.exc = "ValueError") =>
          FileNameTime(loc[1].url).state = "raised"

---------------------------------------------------------------------------
(* Claim about get_maps_of_flareevent, under SpecBatch *)

\* the exception, if any, of rewriting the URL of the descriptor the loop
\* stands at
RewriteFails(frame) ==
    /\ frame.state = "loop"
    /\ frame.c <= Len(frame.bags)
    /\ ~PyEndsWith(frame.bags[frame.c][frame.img_alg], DotPng)

\* C5: nothing is caught or retried.  An exception of the download of a
\* descriptor, or of the rewriting of its URL, leaves
\* get_maps_of_flareevent at once, as it is and with the frame as it was;
\* once an exception has left, nothing more is processed
\* (no descriptor is entered, no file is written) and no list is returned;
\* a list is only returned by the loop that has run through all the
\* descriptors, one map for each.
BatchAbort ==
    [][ /\ (batch.state = "download" /\ pc[1] = "raised") =>
              batch' = BatchRaised(batch, loc[1].out)
        /\ RewriteFails(batch) =>
              /\ batch' = BatchRaised(batch, Raise("Exception"))
              /\ UNCHANGED <<disk, pc, loc>>
        /\ batch.state = "raised" =>
              /\ batch.out.state = "raised"
              /\ batch' = NoBatch
              /\ UNCHANGED <<disk, pc, loc>>
        /\ batch'.state = "returned" =>
              /\ batch.state = "loop"
              /\ batch'.out.state = "returned"
              /\ Len(batch'.out.val) = Len(batch.bags) ]_vars

\* the second of several descriptors has failed in its download: a map was
\* downloaded before it, and a descriptor is left
BatchAbortWitness ==
    /\ batch.state = "raised"
    /\ batch.out.state = "raised"
    /\ Len(batch.map_list) = 1
    /\ batch.c = 2
    /\ Len(batch.bags) = 3

---------------------------------------------------------------------------
(* Claim about two concurrent callers, under SpecRace *)

\* the failures a caller has alone as well: the network fails, or the time
\* of the url is no number
FailsAsAlone(p) ==
    \/ loc[p].out.exc = "ValueError"
    \/ loc[p].opened # <<>> /\ ~loc[p].fits_img.open

\* the maps of the url a caller may hold: enriched with its energies or
\* with those of the other caller
EnrichedMaps(url) ==
    {EnrichedMap(url, loc[q].energy_l, loc[q].energy_h) : q \in Callers}

---------------------------------------------------------------------------
(* Claims about the pure functions, under SpecPure *)

Called(name) == fn = name /\ ret # NoRet

\* C4: a url that does not end in ".png" is refused with an exception; for
\* any other the result is the base URL of the image database followed by
\* the url with its final ".png" replaced by ".fits".
UrlRewrite ==
    Called("_rewrite_url_to_fits_url") =>
        IF Len(arg) >= 4 /\ SubSeq(arg, Len(arg) - 3, Len(arg)) = DotPng
        THEN ret = Ok(_IMAGE_DATABASE_BASE_URL
                        \o SubSeq(arg, 1, Len(arg) - 4)
                        \o <<".", "f", "i", "t", "s">>)
        ELSE ret.state = "raised"

UrlRewriteWitness ==
    /\ Called("_rewrite_url_to_fits_url")
    /\ ret.state = "returned"
    /\ Len(arg) = 5

IsLeap(y) == y % 4 = 0 /\ (y % 100 # 0 \/ y % 400 = 0)

DaysInMonth(y, m) ==
    IF m = 2 THEN (IF IsLeap(y) THEN 29 ELSE 28)
    ELSE IF m \in {4, 6, 9, 11} THEN 30 ELSE 31

RECURSIVE DaysBeforeMonth(_, _)
DaysBeforeMonth(y, m) ==
    IF m = 1 THEN 0 ELSE DaysBeforeMonth(y, m - 1) + DaysInMonth(y, m - 1)

\* the leap years before year y, counted from year 1
LeapYearsBefore(y) == (y - 1) \div 4 - (y - 1) \div 100 + (y - 1) \div 400

\* the days from 1970-01-01 to the day y-m-d, counted year by year and
\* month by month
DaysSince1970(y, m, d) ==
    365 * (y - 1970) + LeapYearsBefore(y) - LeapYearsBefore(1970)
        + DaysBeforeMonth(y, m) + d - 1

\* the seconds from 1970-01-01T00:00:00Z to the datetime dt
SecondsSince1970(dt) ==
    DaysSince1970(dt.year, dt.month, dt.day) * 86400
        + dt.hour * 3600 + dt.minute * 60 + dt.second

IsDateTime(dt) ==
    /\ dt.month \in 1..12
    /\ dt.day \in 1..DaysInMonth(dt.year, dt.month)
    /\ dt.hour \in 0..23 /\ dt.minute \in 0..59 /\ dt.second \in 0..59

\* C7: the offset is the number of seconds from 1970-01-01T00:00:00Z to
\* 1979-01-01T00:00:00Z, and the datetime _hespeTimeToUTC(x) gives is the
\* one x seconds after 1979-01-01T00:00:00Z, which is the UTC datetime of
\* the Unix time x + 283996800; of 0 it is 1979-01-01T00:00:00Z.
EpochDecoding ==
    /\ _HESPE_TIME_TO_UNIX_TIME = DaysSince1970(1979, 1, 1) * 86400
    /\ Called("_hespeTimeToUTC") =>
          /\ IsDateTime(ret.val)
          /\ SecondsSince1970(ret.val) = arg + 283996800
          /\ SecondsSince1970(ret.val) - DaysSince1970(1979, 1, 1) * 86400 = arg
          /\ arg = 0 =>
                ret.val = [year |-> 1979, month |-> 1, day |-> 1,
                           hour |-> 0, minute |-> 0, second |-> 0]

EpochDecodingWitness ==
    /\ Called("_hespeTimeToUTC")
    /\ ret.val.year = 1980 /\ ret.val.month = 2 /\ ret.val.day = 29
    /\ ret.val.second = 59

\* the positions of data whose record is of ivs_type
Matching(data, ivs_type) ==
    {i \in 1..Len(data) : data[i].ivsType = ivs_type}

\* C3: on an answer of code 200 whose records hold none of the ivs_type
\* asked for (an empty list included) the call fails with an exception;
\* when a record matches, the call returns the first one that does.
MetadataSelection ==
    (Called("_get_flare_data") /\ arg[1].code = 200) =>
        LET hits == Matching(arg[1].data, arg[2])
        IN  IF hits = {} THEN ret.state = "raised"
            ELSE /\ ret.state = "returned"
                 /\ \E i \in hits :
                       /\ \A j \in hits : i <= j
                       /\ ret.val = arg[1].data[i]

\* two records match and differ: the first of them is returned
MetadataSelectionWitness ==
    /\ Called("_get_flare_data")
    /\ arg[1].code = 200
    /\ ret.state = "returned"
    /\ \E j \in Matching(arg[1].data, arg[2]) : arg[1].data[j] # ret.val

\* the values of ParamSample as they read in a URL
SampleText ==
    [min_date |-> "1357", max_date |-> "1362", min_duration |-> "60",
     max_duration |-> "900", min_goes |-> "C1", max_goes |-> "X9",
     flare_id |-> "13060315", start_nmbr |-> "20", total_nmbr |-> "100",
     sort_parameter |-> "duration", sortDirection |-> "ASC"]

\* the path segment of a keyword: its value when given, else the sentinel
Segment(kwargs, name, sentinel) ==
    IF kwargs[name] = Unset THEN sentinel ELSE SampleText[name]

\* C6: the URL is the base URL of the event list followed by the eleven
\* values, "/" between them, in the order min_date, max_date,
\* min_duration, max_duration, min_goes, max_goes, flare_id, start_nmbr,
\* total_nmbr, sort_parameter, sortDirection, a keyword that is not given
\* standing as its sentinel; with none given it is _EVENT_LIST_URL.
ParameterUrl ==
    Called("_generate_parameter_url") =>
        /\ ret.val =
              "http://hsp.cs.technik.fhnw.ch/webdbi-0.6-SNAPSHOT/filteredEvents/"
                \o Segment(arg, "min_date", "-1") \o "/"
                \o Segment(arg, "max_date", "-1") \o "/"
                \o Segment(arg, "min_duration", "-1") \o "/"
                \o Segment(arg, "max_duration", "-1") \o "/"
                \o Segment(arg, "min_goes", "null") \o "/"
                \o Segment(arg, "max_goes", "null") \o "/"
                \o Segment(arg, "flare_id", "-1") \o "/"
                \o Segment(arg, "start_nmbr", "0") \o "/"
                \o Segment(arg, "total_nmbr", "0") \o "/"
                \o Segment(arg, "sort_parameter", "startTime") \o "/"
                \o Segment(arg, "sortDirection", "DESC")
        /\ (\A n \in ParamSet : arg[n] = Unset) => ret.val = _EVENT_LIST_URL

\* some keywords are given and some are not
ParameterUrlWitness ==
    /\ Called("_generate_parameter_url")
    /\ arg["min_date"] # Unset /\ arg["max_goes"] # Unset
    /\ arg["max_date"] = Unset /\ arg["flare_id"] = Unset
    /\ ret.val =
          "http://hsp.cs.technik.fhnw.ch/webdbi-0.6-SNAPSHOT/filteredEvents/1357/-1/-1/-1/null/X9/-1/0/0/startTime/DESC"

KeyOf(m) == <<m.meta["energy_l"], m.meta["energy_h"]>>

\* how many times x stands in the sequence q
Count(q, x) == Cardinality({i \in 1..Len(q) : q[i] = x})

RECURSIVE SumAlpha(_)
\* the sum of the weights of a composite, as a fraction
SumAlpha(comp_map) ==
    IF comp_map = <<>> THEN <<0, 1>>
    ELSE LET rest == SumAlpha(Tail(comp_map))
             alpha == Head(comp_map).alpha
         IN  <<alpha[1] * rest[2] + rest[1] * alpha[2], alpha[2] * rest[2]>>

===========================================================================
